---- MODULE Spec2Model ----
(***************************************************************************)
(* Model of the two scripts of TennisPredictionService/Python:             *)
(*   CSVMerger.py      lists a directory of yearly CSV files, filters them *)
(*                     by the year in their name, reads each one (UTF-8,   *)
(*                     Latin-1 on a decode error), concatenates the frames *)
(*                     and writes one merged CSV file;                     *)
(*   CopyDataToJava.py copies a merged CSV file into the Java resources.   *)
(* File names are spelled out as sequences of one-character strings, so    *)
(* that sorting, splitting at '.', the '.csv' suffix test and int() are    *)
(* computed as Python computes them.                                       *)
(***************************************************************************)
EXTENDS Integers, Sequences, FiniteSets, TLC

\* ------------------------------------------------------------ bounds
\* At most this many entries in the input directory.
MaxFiles == 2
\* At most this many data rows in one source file.
MaxRows == 3

\* ------------------------------------------------------------ strings
Digits == {"0", "1", "2", "3", "4", "5", "6", "7", "8", "9"}

\* ord(c) for the characters that occur in the modelled names.
Ord(c) ==
  CASE c = " " -> 32 [] c = "+" -> 43 [] c = "-" -> 45 [] c = "." -> 46
    [] c = "0" -> 48 [] c = "1" -> 49 [] c = "2" -> 50 [] c = "3" -> 51
    [] c = "4" -> 52 [] c = "5" -> 53 [] c = "6" -> 54 [] c = "7" -> 55
    [] c = "8" -> 56 [] c = "9" -> 57 [] c = "_" -> 95
    [] c = "a" -> 97 [] c = "c" -> 99 [] c = "e" -> 101 [] c = "l" -> 108
    [] c = "p" -> 112 [] c = "r" -> 114 [] c = "s" -> 115 [] c = "t" -> 116
    [] c = "v" -> 118 [] c = "x" -> 120 [] c = "y" -> 121

\* StrLess with the comparison of the deciding characters turned round.
RECURSIVE StrLessReversed(_, _)
StrLessReversed(s, t) ==
  IF t = <<>> THEN FALSE
  ELSE IF s = <<>> THEN TRUE
  ELSE IF Head(s) = Head(t) THEN StrLessReversed(Tail(s), Tail(t))
  ELSE Ord(Head(s)) > Ord(Head(t))

\* Python's s < t on str: the first differing character decides by code point,
\* and a proper prefix is smaller.
RECURSIVE StrLess(_, _)
StrLess(s, t) ==
  IF t = <<>> THEN FALSE
  ELSE IF s = <<>> THEN TRUE
  ELSE IF Head(s) = Head(t) THEN StrLess(Tail(s), Tail(t))
  ELSE Ord(Head(s)) < Ord(Head(t))

\* s.endswith(".csv")
StrEndsWithCsv(s) ==
  /\ Len(s) >= 4
  /\ SubSeq(s, Len(s) - 3, Len(s)) = <<".", "c", "s", "v">>

\* s.split(".")[0]: the part of s before its first '.', all of s when it has none.
RECURSIVE StrSplitFirst(_)
StrSplitFirst(s) ==
  IF s = <<>> \/ Head(s) = "." THEN <<>>
  ELSE <<Head(s)>> \o StrSplitFirst(Tail(s))

\* str.strip() for the one whitespace character of the alphabet.
RECURSIVE LStrip(_)
LStrip(s) == IF s # <<>> /\ Head(s) = " " THEN LStrip(Tail(s)) ELSE s

RECURSIVE RStrip(_)
RStrip(s) ==
  IF s # <<>> /\ s[Len(s)] = " " THEN RStrip(SubSeq(s, 1, Len(s) - 1)) ELSE s

DigitValue(c) == Ord(c) - Ord("0")

\* The digits of a numeral body, with single underscores between digits allowed.
IsNumeralBody(b) ==
  /\ b # <<>>
  /\ \A k \in 1..Len(b) : b[k] \in Digits \cup {"_"}
  /\ b[1] \in Digits
  /\ b[Len(b)] \in Digits
  /\ \A k \in 1..(Len(b) - 1) : ~(b[k] = "_" /\ b[k + 1] = "_")

RECURSIVE NumeralValue(_, _)
NumeralValue(b, acc) ==
  IF b = <<>> THEN acc
  ELSE IF Head(b) = "_" THEN NumeralValue(Tail(b), acc)
  ELSE NumeralValue(Tail(b), 10 * acc + DigitValue(Head(b)))

\* int(s), base 10: surrounding whitespace is stripped, one optional sign, then
\* decimal digits (leading zeros allowed); anything else raises ValueError
\* (ok = FALSE).
ParseInt(s) ==
  LET t    == RStrip(LStrip(s))
      sgn  == t # <<>> /\ Head(t) \in {"+", "-"}
      body == IF sgn THEN Tail(t) ELSE t
  IN  IF ~IsNumeralBody(body) THEN [ok |-> FALSE, value |-> 0]
      ELSE IF sgn /\ Head(t) = "-"
      THEN [ok |-> TRUE, value |-> 0 - NumeralValue(body, 0)]
      ELSE [ok |-> TRUE, value |-> NumeralValue(body, 0)]


\* ------------------------------------------------------------ paths
\* A path is the sequence of its components; os.path.join appends components.
Join(p, q) == p \o q

\* The absolute path of p taken from the directory cwd: each ".." drops the
\* component before it.
RECURSIVE Resolve(_, _)
Resolve(cwd, p) ==
  IF p = <<>> THEN cwd
  ELSE IF Head(p) = ".." THEN Resolve(SubSeq(cwd, 1, Len(cwd) - 1), Tail(p))
  ELSE Resolve(cwd \o <<Head(p)>>, Tail(p))

\* CopyDataToJava.py
project_root ==
  <<"C:", "Users", "Admin", "Downloads", "TennisPredictionService", "TennisPredictionService">>
source_file == Join(project_root, <<"Data", "merged2005_2024.csv">>)
resources_dir == Join(project_root, <<"Java", "src", "main", "resources">>)
destination_file == Join(resources_dir, <<"merged2005_2024.csv">>)

\* CSVMerger.py; its relative paths are taken from the Python directory of the
\* project, where the script lives.
folder_path == <<"..", "Data", "OriginalCSVs">>
folder_path2 == <<"..", "Data">>
output_file == Join(folder_path2, <<"merged2005_2025.csv">>)
ScriptDir == Join(project_root, <<"Python">>)
OutputPath == Resolve(ScriptDir, output_file)

AllPaths == {OutputPath, source_file, resources_dir, destination_file}

\* What a path of the filesystem holds.
Absent == [kind |-> "absent"]
Dir == [kind |-> "dir"]
\* A merged file left by an earlier run.
OldFile == [kind |-> "file", header |-> <<"old">>, rows |-> <<>>]
\* A copy left in the resources directory by an earlier run.
StaleCopy == [kind |-> "file", header |-> <<"stale">>, rows |-> <<>>]

\* ------------------------------------------------------------ inputs
\* A file name is held as a string; Chars spells it out, one character a time.
N2004 == "2004.csv"
N2005 == "2005.csv"
N2025 == "2025.csv"
N2026 == "2026.csv"
N02006 == "02006.csv"
N2005a == "2005.a.csv"
Nplayers == "players.csv"
N2006txt == "2006.txt"

Chars(f) ==
  CASE f = N2004 -> <<"2", "0", "0", "4", ".", "c", "s", "v">>
    [] f = N2005 -> <<"2", "0", "0", "5", ".", "c", "s", "v">>
    [] f = N2025 -> <<"2", "0", "2", "5", ".", "c", "s", "v">>
    [] f = N2026 -> <<"2", "0", "2", "6", ".", "c", "s", "v">>
    [] f = N02006 -> <<"0", "2", "0", "0", "6", ".", "c", "s", "v">>
    [] f = N2005a -> <<"2", "0", "0", "5", ".", "a", ".", "c", "s", "v">>
    [] f = Nplayers -> <<"p", "l", "a", "y", "e", "r", "s", ".", "c", "s", "v">>
    [] f = N2006txt -> <<"2", "0", "0", "6", ".", "t", "x", "t">>

\* Sorted with reverse=True: descending by StrLess.
RECURSIVE SortedDescending(_)
SortedDescending(S) ==
  IF S = {} THEN <<>>
  ELSE LET m == CHOOSE x \in S : \A y \in S \ {x} : StrLess(Chars(y), Chars(x))
       IN  <<m>> \o SortedDescending(S \ {m})

\* sorted(names) for a set of distinct names: ascending by StrLess.
RECURSIVE Sorted(_)
Sorted(S) ==
  IF S = {} THEN <<>>
  ELSE LET m == CHOOSE x \in S : \A y \in S \ {x} : StrLess(Chars(x), Chars(y))
       IN  <<m>> \o Sorted(S \ {m})

\* f.endswith(".csv")
EndsWithCsv(f) == StrEndsWithCsv(Chars(f))

\* f.split(".")[0]
SplitFirst(f) == StrSplitFirst(Chars(f))

\* int(f.split(".")[0])
DerivedYear(f) == ParseInt(SplitFirst(f))

YearLo == 2005
YearHi == 2025

\* InRange with the upper bound exclusive.
InRangeExclusive(f) == YearLo <= DerivedYear(f).value /\ DerivedYear(f).value < YearHi

\* 2005 <= int(f.split(".")[0]) <= 2025, for a name whose year parses.
InRange(f) == YearLo <= DerivedYear(f).value /\ DerivedYear(f).value <= YearHi

\* The entries an input directory is drawn from.
Names == {N2004, N2005, N2025, N2026, N02006, N2005a, Nplayers, N2006txt}

\* The header lines a source file is drawn from.
ColumnLists == {<<"a", "b">>, <<"a", "c">>}

\* What a source file holds: bytes that decode as UTF-8, bytes that decode only
\* as Latin-1, or bytes the CSV parser rejects (under UTF-8, or under Latin-1
\* after UTF-8 decoding failed), and for a parseable file its header and its
\* number of data rows.
Parseable == {"utf8", "latin1"}
FileContents ==
  [kind : Parseable, cols : ColumnLists, nrows : 0..MaxRows]
    \cup [kind : {"malformed", "latin1_malformed"}, cols : {<<>>}, nrows : {0}]

\* ------------------------------------------------------------ pandas
Range(s) == {s[k] : k \in 1..Len(s)}

\* A missing cell of a DataFrame.
NaN == <<"NaN">>
\* An empty field of a CSV line.
EmptyField == <<>>

\* The frame parsed from file f: row r holds, in column c, the cell <<f, r, c>>
\* (the row sets of distinct files are disjoint).
Frame(f, content) ==
  [cols |-> content.cols,
   rows |-> [r \in 1..content.nrows |->
               [c \in Range(content.cols) |-> <<f, r, c>>]]]

\* The frame of a call that raised, and of a variable not assigned yet.
NoFrame == [cols |-> <<>>, rows |-> <<>>]
Raised(e) == [error |-> e, df |-> NoFrame]
Returned(df) == [error |-> "none", df |-> df]

\* ReadCsv whose Latin-1 read loses the last row of the file.
ReadCsvLossyLatin1(f, content, enc) ==
  IF enc = "utf-8"
  THEN CASE content.kind = "utf8" -> Returned(Frame(f, content))
         [] content.kind \in {"latin1", "latin1_malformed"} -> Raised("UnicodeDecodeError")
         [] OTHER -> Raised("ParserError")
  ELSE CASE content.kind \in Parseable ->
              LET df == Frame(f, content)
              IN  Returned([cols |-> df.cols,
                            rows |-> SubSeq(df.rows, 1, Len(df.rows) - 1)])
         [] OTHER -> Raised("ParserError")

\* pd.read_csv(f, encoding=enc): the frame returned, or the exception raised.
ReadCsv(f, content, enc) ==
  IF enc = "utf-8"
  THEN CASE content.kind = "utf8" -> Returned(Frame(f, content))
         [] content.kind \in {"latin1", "latin1_malformed"} -> Raised("UnicodeDecodeError")
         [] OTHER -> Raised("ParserError")
  ELSE CASE content.kind \in Parseable -> Returned(Frame(f, content))
         [] OTHER -> Raised("ParserError")

\* UnionCols with join="inner": only the columns every frame has.
UnionColsInner(dfs, acc) ==
  IF dfs = <<>> THEN acc
  ELSE SelectSeq(Head(dfs).cols,
                 LAMBDA c : \A k \in 1..Len(dfs) : c \in Range(dfs[k].cols))

\* The columns of pd.concat: the union, in order of first appearance.
RECURSIVE UnionCols(_, _)
UnionCols(dfs, acc) ==
  IF dfs = <<>> THEN acc
  ELSE UnionCols(Tail(dfs),
                 acc \o SelectSeq(Head(dfs).cols, LAMBDA c : c \notin Range(acc)))

\* A row reindexed to the columns cols: NaN where the row has no such column.
Reindex(row, cols) ==
  [c \in Range(cols) |-> IF c \in DOMAIN row THEN row[c] ELSE NaN]

RECURSIVE ConcatRows(_, _)
ConcatRows(dfs, cols) ==
  IF dfs = <<>> THEN <<>>
  ELSE [k \in 1..Len(Head(dfs).rows) |-> Reindex(Head(dfs).rows[k], cols)]
         \o ConcatRows(Tail(dfs), cols)

\* pd.concat(dfs, ignore_index=True) for a non-empty list; an empty list raises
\* ValueError.
Concat(dfs) ==
  IF dfs = <<>> THEN Raised("ValueError")
  ELSE LET cols == UnionCols(dfs, <<>>)
       IN  Returned([cols |-> cols, rows |-> ConcatRows(dfs, cols)])

\* The text of one cell in a CSV line: NaN is written as the empty field.
Field(cell) == IF cell = NaN THEN EmptyField ELSE cell

\* df.to_csv(index=False): one header line, then one line per row, its fields in
\* header order.
ToCsv(df) ==
  [kind |-> "file",
   header |-> df.cols,
   rows |-> [k \in 1..Len(df.rows) |->
               [j \in 1..Len(df.cols) |-> Field(df.rows[k][df.cols[j]])]]]

\* ------------------------------------------------------------ state
VARIABLES
  dirExists,          \* the input directory ../Data/OriginalCSVs exists
  listing,            \* os.listdir(folder_path): the names of its entries
  disk,               \* the contents of the source files opened so far
  fs,                 \* what each path of AllPaths holds
  fs0,                \* fs as it was before either script ran
  pc,                 \* CSVMerger.py: the statement to run next
  error,              \* CSVMerger.py: the uncaught exception, "none" without one
  csv_files,
  csv_files_filtered,
  i,                  \* the read loop's position in csv_files_filtered
  df_list,
  merged_df,
  reads,              \* the calls of pd.read_csv so far: file, encoding, outcome
  printed,            \* CSVMerger.py: the lines printed
  cpc,                \* CopyDataToJava.py: the statement to run next
  status,             \* CopyDataToJava.py: the exit status, -1 while running
  cout                \* CopyDataToJava.py: the lines printed

vars ==
  <<dirExists, listing, disk, fs, fs0, pc, error, csv_files, csv_files_filtered,
    i, df_list, merged_df, reads, printed, cpc, status, cout>>

inputVars == <<dirExists, listing, fs0>>
mergerVars ==
  <<pc, error, csv_files, csv_files_filtered, i, df_list, merged_df, reads, printed>>
copierVars == <<cpc, status, cout>>

\* The directories a run may find: at most MaxFiles entries drawn from U.
Listings(U) == {S \in SUBSET U : Cardinality(S) <= MaxFiles}

\* The filesystem of a fresh project: no merged file, no copy of it.
FreshFs == {[p \in AllPaths |-> Absent]}

\* Every filesystem the two scripts may start from.
AnyFs ==
  {[p \in AllPaths |->
      CASE p = OutputPath -> out
        [] p = source_file -> src
        [] p = resources_dir -> res[1]
        [] OTHER -> res[2]] :
     out \in {Absent, OldFile}, src \in {Absent, OldFile},
     res \in {<<Absent, Absent>>, <<Dir, Absent>>, <<Dir, StaleCopy>>}}

InitWith(U, F) ==
  /\ dirExists \in BOOLEAN
  /\ listing \in (IF dirExists THEN Listings(U) ELSE {{}})
  /\ disk = <<>>
  /\ fs0 \in F
  /\ fs = fs0
  /\ pc = "list"
  /\ error = "none"
  /\ csv_files = <<>>
  /\ csv_files_filtered = <<>>
  /\ i = 1
  /\ df_list = <<>>
  /\ merged_df = NoFrame
  /\ reads = <<>>
  /\ printed = <<>>
  /\ cpc = "check"
  /\ status = -1
  /\ cout = <<>>

Init == InitWith(Names, FreshFs)

\* ------------------------------------------------------------ CSVMerger.py
\* An uncaught exception ends the run.
Crash(e) ==
  /\ pc' = "crashed"
  /\ error' = e

\* csv_files = sorted([f for f in os.listdir(folder_path) if f.endswith(".csv")])
ListDir ==
  /\ pc = "list"
  /\ IF dirExists
     THEN /\ csv_files' = Sorted({f \in listing : EndsWithCsv(f)})
          /\ pc' = "filter"
          /\ error' = error
     ELSE /\ Crash("FileNotFoundError")
          /\ csv_files' = csv_files
  /\ UNCHANGED <<inputVars, disk, fs, csv_files_filtered, i, df_list, merged_df,
                 reads, printed, copierVars>>

\* FilterFiles that skips a name whose year does not parse instead of raising.
FilterFilesLenient ==
  /\ pc = "filter"
  /\ csv_files_filtered' =
       SelectSeq(csv_files, LAMBDA f : DerivedYear(f).ok /\ InRange(f))
  /\ pc' = IF csv_files_filtered' = <<>> THEN "concat" ELSE "read"
  /\ UNCHANGED <<inputVars, disk, fs, error, csv_files, i, df_list, merged_df,
                 reads, printed, copierVars>>

\* csv_files_filtered = [f for f in csv_files if 2005 <= int(f.split(".")[0]) <= 2025]
FilterFiles ==
  /\ pc = "filter"
  /\ IF \E k \in 1..Len(csv_files) : ~DerivedYear(csv_files[k]).ok
     THEN /\ Crash("ValueError")
          /\ csv_files_filtered' = csv_files_filtered
     ELSE /\ csv_files_filtered' = SelectSeq(csv_files, InRange)
          /\ pc' = IF csv_files_filtered' = <<>> THEN "concat" ELSE "read"
          /\ error' = error
  /\ UNCHANGED <<inputVars, disk, fs, csv_files, i, df_list, merged_df, reads,
                 printed, copierVars>>

\* df_list.append(df), and the loop goes on to the next file or ends.
AppendFrame(df) ==
  /\ df_list' = Append(df_list, df)
  /\ i' = i + 1
  /\ pc' = IF i + 1 > Len(csv_files_filtered) THEN "concat" ELSE "read"
  /\ error' = error

Call(f, enc, r) == [file |-> f, encoding |-> enc, outcome |-> r.error]

\* ReadUtf8 with a bare except: any failure of the UTF-8 read goes to the fallback.
ReadUtf8CatchAll ==
  /\ pc = "read"
  /\ LET f == csv_files_filtered[i]
     IN  \E content \in FileContents :
           LET r == ReadCsv(f, content, "utf-8")
           IN  /\ disk' = (f :> content) @@ disk
               /\ reads' = Append(reads, Call(f, "utf-8", r))
               /\ IF r.error = "none"
                  THEN AppendFrame(r.df)
                  ELSE /\ pc' = "fallback"
                       /\ UNCHANGED <<error, i, df_list>>
  /\ UNCHANGED <<inputVars, fs, csv_files, csv_files_filtered, merged_df, printed,
                 copierVars>>

\* try: df = pd.read_csv(file_path, encoding="utf-8"), for the file the loop is at.
ReadUtf8 ==
  /\ pc = "read"
  /\ LET f == csv_files_filtered[i]
     IN  \E content \in FileContents :
           LET r == ReadCsv(f, content, "utf-8")
           IN  /\ disk' = (f :> content) @@ disk
               /\ reads' = Append(reads, Call(f, "utf-8", r))
               /\ CASE r.error = "none" -> AppendFrame(r.df)
                    [] r.error = "UnicodeDecodeError" ->
                         /\ pc' = "fallback"
                         /\ UNCHANGED <<error, i, df_list>>
                    [] OTHER -> Crash(r.error) /\ UNCHANGED <<i, df_list>>
  /\ UNCHANGED <<inputVars, fs, csv_files, csv_files_filtered, merged_df, printed,
                 copierVars>>

\* except UnicodeDecodeError: df = pd.read_csv(file_path, encoding="latin1")
ReadLatin1 ==
  /\ pc = "fallback"
  /\ LET f == csv_files_filtered[i]
         r == ReadCsv(f, disk[f], "latin1")
     IN  /\ reads' = Append(reads, Call(f, "latin1", r))
         /\ IF r.error = "none"
            THEN AppendFrame(r.df)
            ELSE Crash(r.error) /\ UNCHANGED <<i, df_list>>
  /\ UNCHANGED <<inputVars, disk, fs, csv_files, csv_files_filtered, merged_df,
                 printed, copierVars>>

\* merged_df = pd.concat(df_list, ignore_index=True)
ConcatFrames ==
  /\ pc = "concat"
  /\ LET r == Concat(df_list)
     IN  IF r.error = "none"
         THEN /\ merged_df' = r.df
              /\ pc' = "write"
              /\ error' = error
         ELSE /\ Crash(r.error)
              /\ merged_df' = merged_df
  /\ UNCHANGED <<inputVars, disk, fs, csv_files, csv_files_filtered, i, df_list,
                 reads, printed, copierVars>>

\* merged_df.to_csv(output_file, index=False, encoding="utf-8")
WriteOutput ==
  /\ pc = "write"
  /\ fs' = [fs EXCEPT ![Resolve(ScriptDir, output_file)] = ToCsv(merged_df)]
  /\ pc' = "print"
  /\ UNCHANGED <<inputVars, disk, error, csv_files, csv_files_filtered, i, df_list,
                 merged_df, reads, printed, copierVars>>

\* print(f"Merged {len(csv_files_filtered)} files into {output_file} ...")
Report ==
  /\ pc = "print"
  /\ printed' = Append(printed, [count |-> Len(csv_files_filtered), path |-> output_file])
  /\ pc' = "done"
  /\ UNCHANGED <<inputVars, disk, fs, error, csv_files, csv_files_filtered, i,
                 df_list, merged_df, reads, copierVars>>

Next ==
  \/ ListDir
  \/ FilterFiles
  \/ ReadUtf8
  \/ ReadLatin1
  \/ ConcatFrames
  \/ WriteOutput
  \/ Report

Spec == Init /\ [][Next]_vars

\* ------------------------------------------------------------ CopyDataToJava.py
\* The two scripts are run one after the other: the copier starts once the
\* merger's run has ended.
MergerEnded == pc \in {"done", "crashed"}

\* CheckSource with os.makedirs run before the check.
CheckSourceAfterMakeDirs ==
  /\ MergerEnded
  /\ cpc = "check"
  /\ fs' = [fs EXCEPT ![resources_dir] = Dir]
  /\ IF fs[source_file] = Absent
     THEN /\ cout' = Append(cout, [text |-> "not found", path |-> source_file])
          /\ status' = 1
          /\ cpc' = "exited"
     ELSE /\ cpc' = "makedirs"
          /\ UNCHANGED <<status, cout>>
  /\ UNCHANGED <<inputVars, disk, mergerVars>>

\* if not os.path.exists(source_file): print(...); exit(1)
CheckSource ==
  /\ MergerEnded
  /\ cpc = "check"
  /\ IF fs[source_file] = Absent
     THEN /\ cout' = Append(cout, [text |-> "not found", path |-> source_file])
          /\ status' = 1
          /\ cpc' = "exited"
     ELSE /\ cpc' = "makedirs"
          /\ UNCHANGED <<status, cout>>
  /\ UNCHANGED <<inputVars, disk, fs, mergerVars>>

\* os.makedirs(resources_dir, exist_ok=True)
MakeDirs ==
  /\ cpc = "makedirs"
  /\ fs' = [fs EXCEPT ![resources_dir] = Dir]
  /\ cpc' = "copy"
  /\ UNCHANGED <<inputVars, disk, mergerVars, status, cout>>

\* shutil.copy2(source_file, destination_file)
CopyFile ==
  /\ cpc = "copy"
  /\ fs' = [fs EXCEPT ![destination_file] = fs[source_file]]
  /\ cpc' = "print"
  /\ UNCHANGED <<inputVars, disk, mergerVars, status, cout>>

\* print(f"Filen kopierad till: {destination_file}"), and the script ends.
PrintCopied ==
  /\ cpc = "print"
  /\ cout' = Append(cout, [text |-> "copied", path |-> destination_file])
  /\ status' = 0
  /\ cpc' = "exited"
  /\ UNCHANGED <<inputVars, disk, fs, mergerVars>>

\* The directories of the runs that are followed by the copier.
PipelineNames == {N2005, N2025, Nplayers}

InitPipeline == InitWith(PipelineNames, AnyFs)

NextPipeline ==
  \/ ListDir
  \/ FilterFiles
  \/ ReadUtf8
  \/ ReadLatin1
  \/ ConcatFrames
  \/ WriteOutput
  \/ Report
  \/ CheckSource
  \/ MakeDirs
  \/ CopyFile
  \/ PrintCopied

SpecPipeline == InitPipeline /\ [][NextPipeline]_vars

\* ------------------------------------------------------------ properties
\* The merged file, once CSVMerger.py has written it.
Written == pc \in {"print", "done"}
\* CSVMerger.py ran to its end.
Finished == pc = "done"
Output == fs[OutputPath]

\* The source file and the row number a line of the merged file comes from, read
\* off one of its non-empty fields.
LineKey(line) ==
  LET j == CHOOSE j \in 1..Len(line) : line[j] # EmptyField
  IN  <<line[j][1], line[j][2]>>

\* The keys of the lines of the merged file, in order.
OutputKeys == [k \in 1..Len(Output.rows) |-> LineKey(Output.rows[k])]

\* The number of lines of the merged file that come from file f.
OutputRowsOf(f) ==
  Cardinality({k \in 1..Len(Output.rows) : LineKey(Output.rows[k])[1] = f})

RECURSIVE SumRows(_)
SumRows(files) ==
  IF files = <<>> THEN 0 ELSE disk[Head(files)].nrows + SumRows(Tail(files))

\* <<f, 1>>, ..., <<f, n>> for each file f of files in turn, n its row count.
RECURSIVE ExpectedKeys(_)
ExpectedKeys(files) ==
  IF files = <<>> THEN <<>>
  ELSE [r \in 1..disk[Head(files)].nrows |-> <<Head(files), r>>]
         \o ExpectedKeys(Tail(files))

\* The name f comes before the name g in lexicographic order of code points.
LexBefore(f, g) ==
  LET s == Chars(f)
      t == Chars(g)
  IN  \E k \in 1..Len(t) :
        /\ k <= Len(s) + 1
        /\ \A j \in 1..(k - 1) : s[j] = t[j]
        /\ k = Len(s) + 1 \/ Ord(s[k]) < Ord(t[k])

\* For each name, whether it ends in '.csv', and the integer its part before the
\* first '.' parses as.
CsvNames == {f \in Names : EndsWithCsv(f)}
ParsedYear == [f \in Names |-> DerivedYear(f)]
HasYear(f) == ParsedYear[f].ok
YearOf(f) == ParsedYear[f].value

C2_RowCount ==
  Finished =>
    /\ Len(Output.rows) = SumRows(csv_files_filtered)
    /\ LET keys == OutputKeys
       IN  \A f \in Range(csv_files_filtered) :
             \A r \in 1..disk[f].nrows :
               Cardinality({k \in 1..Len(keys) : keys[k] = <<f, r>>}) = 1

C2_Witness ==
  /\ pc = "done"
  /\ Len(csv_files_filtered) = 2
  /\ disk[csv_files_filtered[1]].kind = "utf8"
  /\ disk[csv_files_filtered[2]].kind = "latin1"
  /\ Len(Output.rows) = 4

\* C3: the merged file is the rows of the filtered files, file after file in
\* lexicographic order of the file names, the rows of one file in their
\* original order.
C3_LexOrder ==
  /\ \A a, b \in 1..Len(csv_files_filtered) :
       a < b => LexBefore(csv_files_filtered[a], csv_files_filtered[b])
  /\ Finished =>
       LET keys == OutputKeys
       IN  /\ keys = ExpectedKeys(csv_files_filtered)
           /\ \A k, l \in 1..Len(keys) :
                k < l =>
                  IF keys[k][1] = keys[l][1]
                  THEN keys[k][2] < keys[l][2]
                  ELSE LexBefore(keys[k][1], keys[l][1])

C3_Witness ==
  /\ pc = "done"
  /\ csv_files_filtered = <<N02006, N2005>>
  /\ disk[N02006].nrows = 2
  /\ disk[N2005].nrows = 2

\* In the merged file no row of a file with a larger year comes before a row of
\* a file with a smaller year, and rows of two files of one year are in the
\* order of the file names.
YearOrdered ==
  LET keys == OutputKeys
  IN  \A k, l \in 1..Len(keys) :
        k < l =>
          LET f == keys[k][1]
              g == keys[l][1]
          IN  /\ YearOf(f) <= YearOf(g)
              /\ (YearOf(f) = YearOf(g) /\ f # g) => LexBefore(f, g)

\* C4 as claimed: the merged file is ordered by ascending year for every
\* eligible set of file names.
C4_Original == Finished => YearOrdered

\* The part of the name before the first '.' is ASCII decimal digits only.
PlainYear(f) == \A k \in 1..Len(SplitFirst(f)) : SplitFirst(f)[k] \in Digits

\* C4 as amended: when the filtered names spell their years in plain ASCII
\* digits of one digit count, the merged file is ordered by ascending year,
\* two files of one year in the order of their names.
C4_YearOrder ==
  (/\ Finished
   /\ \A f, g \in Range(csv_files_filtered) :
        /\ PlainYear(f)
        /\ Len(SplitFirst(f)) = Len(SplitFirst(g)))
    => YearOrdered

C4_Witness ==
  /\ pc = "done"
  /\ csv_files_filtered = <<N2005a, N2025>>
  /\ OutputRowsOf(N2005a) > 0
  /\ OutputRowsOf(N2025) > 0

\* C5: the columns of the merged file are exactly the columns of the filtered
\* files together, each once; a line that comes from row r of file f holds that
\* row's value in every column f has and the empty field in every other column.
C5_ColumnUnion ==
  Finished =>
    /\ Range(Output.header)
         = UNION {Range(disk[f].cols) : f \in Range(csv_files_filtered)}
    /\ Cardinality(Range(Output.header)) = Len(Output.header)
    /\ \A k \in 1..Len(Output.rows) :
         LET line == Output.rows[k]
             key  == LineKey(line)
             f    == key[1]
             r    == key[2]
         IN  /\ Len(line) = Len(Output.header)
             /\ \A j \in 1..Len(line) :
                  line[j] = IF Output.header[j] \in Range(disk[f].cols)
                            THEN <<f, r, Output.header[j]>>
                            ELSE EmptyField

\* 2 rows over a,b and 3 rows over a,c give 5 rows over a,b,c.
C5_Witness ==
  /\ pc = "done"
  /\ Len(csv_files_filtered) = 2
  /\ disk[csv_files_filtered[1]].cols = <<"a", "b">>
  /\ disk[csv_files_filtered[1]].nrows = 2
  /\ disk[csv_files_filtered[2]].cols = <<"a", "c">>
  /\ disk[csv_files_filtered[2]].nrows = 3
  /\ Output.header = <<"a", "b", "c">>
  /\ Len(Output.rows) = 5
  /\ Output.rows[1][3] = EmptyField
  /\ Output.rows[5][2] = EmptyField

\* A source file no read of the loop can parse.
Unreadable(f) == f \in DOMAIN disk /\ disk[f].kind \notin Parseable

\* C6: a '.csv' entry whose name does not parse as an integer ends the run with
\* an uncaught ValueError before any file is read; an unreadable filtered file
\* ends it with an uncaught error; a run that ended with an error left the
\* output file as it was and printed nothing; and the output file is written
\* only after every filtered file has been read.
C6_FailFast ==
  /\ (/\ pc \notin {"list", "filter"}
      /\ \E f \in listing : f \in CsvNames /\ ~HasYear(f))
       => (pc = "crashed" /\ error = "ValueError" /\ reads = <<>> /\ disk = <<>>)
  /\ \A f \in listing :
       Unreadable(f) => (pc \in {"fallback", "crashed"} /\ ~Written)
  /\ (pc = "crashed") <=> (error # "none")
  /\ pc = "crashed" => (fs[OutputPath] = fs0[OutputPath] /\ printed = <<>>)
  /\ fs[OutputPath] # fs0[OutputPath] =>
       /\ Written
       /\ Len(df_list) = Len(csv_files_filtered)
       /\ \A f \in Range(csv_files_filtered) :
            f \in DOMAIN disk /\ disk[f].kind \in Parseable

C6_Witness ==
  /\ pc = "crashed"
  /\ listing = {N2005, Nplayers}
  /\ fs0[OutputPath] = OldFile
  /\ fs[OutputPath] = OldFile

\* C7: every file is first read as UTF-8; a Latin-1 read of a file comes only
\* right after the UTF-8 read of that file raised a decode error, and once; a
\* file read through the fallback gives its frame once, at its own place in
\* df_list; any other failure of a read is the last read of the run, which ends
\* with that error.
C7_EncodingFallback ==
  /\ \A k \in 1..Len(reads) :
       /\ reads[k].encoding = "latin1" =>
            /\ k > 1
            /\ reads[k - 1] = [file |-> reads[k].file, encoding |-> "utf-8",
                               outcome |-> "UnicodeDecodeError"]
       /\ reads[k].outcome = "UnicodeDecodeError" =>
            /\ reads[k].encoding = "utf-8"
            /\ IF k = Len(reads) THEN pc = "fallback"
               ELSE reads[k + 1].file = reads[k].file /\ reads[k + 1].encoding = "latin1"
       /\ reads[k].outcome \notin {"none", "UnicodeDecodeError"} =>
            (k = Len(reads) /\ pc = "crashed" /\ error = reads[k].outcome)
       /\ \A l \in 1..Len(reads) :
            (l # k /\ reads[l].file = reads[k].file) =>
              reads[l].encoding # reads[k].encoding
  /\ \A n \in 1..Len(df_list) :
       df_list[n] = Frame(csv_files_filtered[n], disk[csv_files_filtered[n]])
  /\ pc \in {"concat", "write", "print", "done"} =>
       Len(df_list) = Len(csv_files_filtered)

C7_Witness ==
  /\ pc = "done"
  /\ Len(reads) = 3
  /\ reads[2].outcome = "UnicodeDecodeError"
  /\ reads[3].encoding = "latin1"
  /\ reads[3].outcome = "none"
  /\ OutputRowsOf(reads[3].file) = 2

\* The copier's check of a missing source prints one message, ends the run with
\* status 1 and changes nothing in the filesystem; with the source in place the
\* run goes on.
C8_CopierStep ==
  (cpc = "check" /\ cpc' # "check") =>
    IF fs[source_file] = Absent
    THEN /\ cpc' = "exited"
         /\ status' = 1
         /\ Len(cout') = Len(cout) + 1
         /\ fs' = fs
    ELSE /\ cpc' = "makedirs"
         /\ status' = -1

\* A copier that has ended found no source and has status 1, with nothing of
\* its own created, or has status 0 and the destination holds the source's
\* content in the resources directory.
C8_CopierEnd ==
  cpc = "exited" =>
    IF fs[source_file] = Absent
    THEN /\ status = 1
         /\ \A p \in AllPaths \ {OutputPath} : fs[p] = fs0[p]
    ELSE /\ status = 0
         /\ fs[resources_dir] = Dir
         /\ fs[destination_file] = fs[source_file]

\* C8: when the source file is missing as the copier runs, the copier prints a
\* message, ends with status 1 and leaves the filesystem unchanged (no
\* destination file, no resources directory created); when the source exists
\* it ends with status 0 only, and then the destination file exists.
C8_CopierMissingSource == [][C8_CopierStep]_vars /\ []C8_CopierEnd

C8_Witness ==
  /\ cpc = "exited"
  /\ status = 1
  /\ Len(cout) = 1
  /\ fs[resources_dir] = Absent
  /\ fs[destination_file] = Absent
  /\ fs[source_file] = Absent
  /\ fs[OutputPath] = OldFile

\* C9 as claimed: with no merged file in place before, a successful run of the
\* merger followed by the copier ends the copier with status 0 and leaves at the
\* destination the file the merger wrote.
C9_Original ==
  (/\ pc = "done"
   /\ cpc = "exited"
   /\ fs0[OutputPath] = Absent
   /\ fs0[source_file] = Absent)
    => (status = 0 /\ fs[destination_file] = fs[OutputPath])

\* C10 as claimed: in an existing directory whose '.csv' entries all have a
\* year and none in [2005, 2025], the merger ends normally, having written a
\* merged file without data rows and reported 0 files.
C10_Original ==
  (/\ dirExists
   /\ pc \in {"done", "crashed"}
   /\ \A f \in listing :
        f \in CsvNames =>
          (HasYear(f) /\ ~(2005 <= YearOf(f) /\ YearOf(f) <= 2025)))
    => /\ pc = "done"
       /\ Output.kind = "file"
       /\ Output # OldFile
       /\ Output.rows = <<>>
       /\ printed = <<[count |-> 0, path |-> output_file]>>
====
